---------------------------- MODULE Spec2Model ----------------------------
(***************************************************************************)
(* Model of FriendNetworkVisualizer.create_visualization                   *)
(* (src/vrchat_friend_network_visualizer.py, lines 390-1091): the radial   *)
(* community layout of the friend graph.                                   *)
(*                                                                         *)
(* Numbers.  Python floats are modelled by integers:                       *)
(*   - a ratio of two counts (cohesion, cross ratio) is kept exactly, as   *)
(*     the record [n |-> numerator, d |-> denominator];                    *)
(*   - an angle is an integer number of millidegrees, FULL = 2*pi;         *)
(*   - a length or coordinate is an integer number of 1/LU layout units.   *)
(* A dict is a function whose DOMAIN is the dict's key set; a list is a    *)
(* sequence.  Node identifiers are 1..graph.n in insertion order.          *)
(***************************************************************************)
EXTENDS Integers, Sequences, FiniteSets, TLC

(* ------------------------------ bounds -------------------------------- *)
MaxNodes == 3
MaxEdges == 2
MaxComms == 2
NumSeeds == 2
\* the graphs laid out in full
LayoutNodes == 4
LayoutEdges == 2
\* the hub network: accounts without friends, and generator states tried
BridgeIsolated == 3
BridgeSeeds == 1
\* the five friends: generator states tried
SplitSeeds == 8
\* the two groups with friendships across: generator states tried
MixedSeeds == 4

(* --------------------------- number model ----------------------------- *)
\* 2*pi in millidegrees
FULL == 360000
\* coordinate units per layout unit
LU == 12

\* max_radius = 500 (line 482), in coordinate units
max_radius == 500 * LU

EmptyMap == [x \in {} |-> 0]

Ratio(a, b) == [n |-> a, d |-> b]
RatioZero == Ratio(0, 1)
\* r1 = r2, r1 < r2, r1 <= r2 on exact ratios (denominators are positive)
REq(r1, r2) == r1.n * r2.d = r2.n * r1.d
RLt(r1, r2) == r1.n * r2.d < r2.n * r1.d
RLe(r1, r2) == r1.n * r2.d <= r2.n * r1.d
\* 1 - r
ROneMinus(r) == Ratio(r.d - r.n, r.d)

Range(s) == {s[i] : i \in 1..Len(s)}

RECURSIVE SumSeq(_)
SumSeq(s) ==
    IF s = <<>> THEN 0
    ELSE IF Len(s) = 1 THEN s[1]
    ELSE SumSeq(SubSeq(s, 1, Len(s) \div 2)) + SumSeq(SubSeq(s, Len(s) \div 2 + 1, Len(s)))

Max2(a, b) == IF a >= b THEN a ELSE b
Min2(a, b) == IF a <= b THEN a ELSE b

(* ------------------------------ graph --------------------------------- *)
\* all_nodes = list(self.graph.nodes()): insertion order
NodeList(g) == [i \in 1..g.n |-> i]

\* list(self.graph.neighbors(node)): adjacency in edge insertion order
NeighborsFrom(es, v) ==
    LET incident == SelectSeq(es, LAMBDA e : e[1] = v \/ e[2] = v)
    IN  [i \in 1..Len(incident) |->
            IF incident[i][1] = v THEN incident[i][2] ELSE incident[i][1]]
Neighbors(g, v) == NeighborsFrom(g.edges, v)

\* self.graph.degree(node)
Degree(g, v) == Len(Neighbors(g, v))

\* [node for node in all_nodes if degree > 0] / == 0
ConnectedNodes(g) == SelectSeq(NodeList(g), LAMBDA v : Degree(g, v) > 0)
\* the isolated list without its first node
IsolatedNodesSkippingFirst(g) ==
    LET all == SelectSeq(NodeList(g), LAMBDA v : Degree(g, v) = 0)
    IN  IF all = <<>> THEN all ELSE Tail(all)
IsolatedNodes(g) == SelectSeq(NodeList(g), LAMBDA v : Degree(g, v) = 0)

\* the input graphs: simple undirected graphs, edges in insertion order
AllEdges(n) == {<<u, v>> : u \in 1..n, v \in 1..n} \ {<<u, v>> \in (1..n) \X (1..n) : u >= v}

RECURSIVE EdgeSeqs(_, _)
EdgeSeqs(n, k) ==
    IF k = 0 THEN {<<>>}
    ELSE LET shorter == EdgeSeqs(n, k - 1)
         IN  shorter \cup
             {Append(s, e) : <<s, e>> \in
                 {<<s, e>> \in shorter \X AllEdges(n) :
                     Len(s) = k - 1 /\ e \notin Range(s)}}

GraphsUpTo(maxn, maxe) ==
    {[n |-> n, edges |-> es] : <<n, es>> \in
        {<<n, es>> \in (0..maxn) \X EdgeSeqs(maxn, maxe) :
            \A i \in 1..Len(es) : es[i][2] <= n}}

\* what the library call returns for the subgraph on S: every node of S gets
\* one community id; the ids are the library's own and need not be contiguous
RawPartitions(S) ==
    {f \in [S -> 0..MaxComms] : Cardinality({f[v] : v \in S}) <= MaxComms}

\* the library's ids kept as community indices
KeepRawIds(partition) == partition

\* lines 416-431: the nodes are grouped by id, the groups listed by ascending
\* id and community_map[node] is the index of the node's group in that list
Renumber(partition) ==
    LET ids == {partition[v] : v \in DOMAIN partition}
    IN  [v \in DOMAIN partition |-> Cardinality({c \in ids : c < partition[v]})]

\* the community maps detection can produce for the subgraph on S
Labelings(S) ==
    IF S = {} THEN {EmptyMap}
    ELSE {Renumber(f) : f \in RawPartitions(S)}

(* -------- a friend network with a hub and ten friend circles ---------- *)
\* Ten circles of friends, each a chain of acquaintances (nodes numbered
\* circle by circle); node 1 is the hub and knows every member of every circle.
\* BridgeX belongs to circle BridgeHome but its friends are the first two
\* members of circle BridgeAway and the hub; BridgeLeaf knows BridgeX only.
\* BridgeIsolated further accounts have no friends.
Bridge == [sizes |-> <<6, 3, 5, 5, 6, 6, 4, 4, 3, 5>>, home |-> 3, away |-> 2]
BridgeSizes == Bridge.sizes
BridgeHome == Bridge.home
BridgeAway == Bridge.away
BridgeMembers == SumSeq(BridgeSizes)
\* the circle of member v, circles numbered from 0
CircleOf(v) ==
    CHOOSE c \in 0..(Len(BridgeSizes) - 1) :
        /\ v > SumSeq(SubSeq(BridgeSizes, 1, c))
        /\ v <= SumSeq(SubSeq(BridgeSizes, 1, c + 1))
FirstOf(c) == SumSeq(SubSeq(BridgeSizes, 1, c)) + 1
BridgeX == BridgeMembers + 1
BridgeLeaf == BridgeMembers + 2
BridgeEdges ==
    LET chains == SelectSeq([v \in 1..(BridgeMembers - 1) |-> <<v, v + 1>>],
                            LAMBDA e : CircleOf(e[1]) = CircleOf(e[2]))
        bridge == <<<<FirstOf(BridgeAway), BridgeX>>,
                    <<FirstOf(BridgeAway) + 1, BridgeX>>,
                    <<BridgeX, BridgeLeaf>>>>
        hub == [i \in 1..(BridgeMembers - 2) |-> <<1, i + 2>>]
    IN  chains \o bridge \o hub \o <<<<1, BridgeX>>>>
BridgeGraph == [n |-> BridgeLeaf + BridgeIsolated, edges |-> BridgeEdges]
\* the detector finds the circles; BridgeX and BridgeLeaf are put in BridgeHome
BridgePartition ==
    [v \in 1..BridgeLeaf |-> IF v > BridgeMembers THEN BridgeHome ELSE CircleOf(v)]

\* Five friends: node 2 knows everybody, node 1 also knows nodes 3 and 5.
\* The detector groups 1 with 5 and 3 with 4 and leaves 2 on its own, so the
\* three friends of node 1 have three different primary communities, one of
\* them its own.
SplitEdges == <<<<2, 3>>, <<1, 5>>, <<1, 3>>, <<1, 2>>, <<2, 5>>, <<2, 4>>>>
SplitGraph == [n |-> Len(SplitEdges) - 1, edges |-> SplitEdges]
SplitPartition == <<0, 1, 2, 2, 0>>

\* Five friends in two groups with many friendships across: node 5 knows
\* everybody; the detector groups 1, 2 and 4, and 3 with 5.
MixedEdges == <<<<1, 5>>, <<2, 5>>, <<3, 4>>, <<1, 3>>, <<2, 4>>, <<1, 2>>, <<4, 5>>, <<3, 5>>>>
MixedGraph == [n |-> 5, edges |-> MixedEdges]
MixedPartition == <<0, 0, 1, 0, 1>>

\* the partitions considered for graph g: every one for the enumerated graphs,
\* the circles for the hub network (its partitions are too many to enumerate)
\* and the groups above for the two networks of five friends
DetectorResults(g) ==
    IF g = BridgeGraph THEN {Renumber(BridgePartition)}
    ELSE IF g = SplitGraph THEN {Renumber(SplitPartition)}
    ELSE IF g = MixedGraph THEN {Renumber(MixedPartition)}
    ELSE Labelings(Range(ConnectedNodes(g)))

(* ------------------------------ state --------------------------------- *)
VARIABLES
    pc,                       \* position in create_visualization
    graph,                    \* self.graph
    seed,                     \* state of the random module
    raised,                   \* the exception that ended the call, or "none"
    community_map,            \* node -> detector label
    node_primary_community,   \* node -> primary community
    node_cross_connectivity,  \* node -> cross_ratio (line 457)
    max_degree,
    node_radius,
    node_visual_size,
    temp_node_cohesion,       \* also node_cohesion (line 647)
    comm_sizes,
    sector_order,             \* iteration order of the stored sector bounds
    gap_per_community,
    community_base_angles,
    community_angle_span,
    node_angles,
    pos,
    anchor_nodes,
    remaining_nodes,
    community_centers,
    iteration,                \* passes done in the running phase
    processing,               \* VRChatNetworkGUI.processing
    stop_requested,           \* VRChatNetworkGUI.stop_requested
    generate_btn,             \* state of the Generate button
    stop_btn,                 \* state of the Stop button
    after_queue,              \* callbacks handed to root.after(0, ...), oldest first
    threads                   \* the process_network threads started so far

detectVars == <<community_map, node_primary_community, node_cross_connectivity>>
metricVars == <<max_degree, node_radius, node_visual_size, temp_node_cohesion>>
sectorVars == <<comm_sizes, sector_order, gap_per_community,
                community_base_angles, community_angle_span>>
placeVars == <<pos, anchor_nodes, remaining_nodes, community_centers, iteration>>

guiVars == <<processing, stop_requested, generate_btn, stop_btn, after_queue, threads>>
layoutVars == <<pc, graph, seed, raised, detectVars, metricVars, sectorVars,
                node_angles, placeVars>>

vars == <<layoutVars, guiVars>>

\* VRChatNetworkGUI.__init__ (lines 39-40, 268-274): nothing runs, Generate is
\* enabled and Stop is disabled
GuiIdle ==
    /\ processing = FALSE
    /\ stop_requested = FALSE
    /\ generate_btn = "normal"
    /\ stop_btn = "disabled"
    /\ after_queue = <<>>
    /\ threads = <<>>

InitLocals ==
    /\ GuiIdle
    /\ pc = "start"
    /\ raised = "none"
    /\ community_map = EmptyMap
    /\ node_primary_community = EmptyMap
    /\ node_cross_connectivity = EmptyMap
    /\ max_degree = 0
    /\ node_radius = EmptyMap
    /\ node_visual_size = EmptyMap
    /\ temp_node_cohesion = EmptyMap
    /\ comm_sizes = EmptyMap
    /\ sector_order = <<>>
    /\ gap_per_community = 0
    /\ community_base_angles = EmptyMap
    /\ community_angle_span = EmptyMap
    /\ node_angles = EmptyMap
    /\ pos = EmptyMap
    /\ anchor_nodes = <<>>
    /\ remaining_nodes = <<>>
    /\ community_centers = EmptyMap
    /\ iteration = 0

Init ==
    /\ graph \in GraphsUpTo(MaxNodes, MaxEdges)
    /\ seed \in 0..(NumSeeds - 1)
    /\ InitLocals

(* ------------------------- the random module -------------------------- *)
\* The generator is seeded from the environment (no random.seed call in the
\* source), so its state is an arbitrary value; the i-th draw of a stage is a
\* function of that state.  A draw is one of three levels: 0 the low end of
\* the interval, 1 its middle, 2 the high end.
Draw(s, i) == (s * 7 + i * 5 + ((s * i) \div 4)) % 3
NextSeed(s) == (s * 5 + 3) % 64
\* random.uniform(lo, hi)
Uniform(lo, hi, level) == lo + ((hi - lo) * level) \div 2
\* random.choice([-1, 1])
ChoiceSign(level) == IF level = 0 THEN -1 ELSE 1

(* --------------------------- dict helpers ----------------------------- *)
\* d.get(k, default)
MapGet(m, k, default) == IF k \in DOMAIN m THEN m[k] ELSE default
\* d[k] = v
MapPut(m, k, v) == [x \in DOMAIN m \ {k} |-> m[x]] @@ (k :> v)
\* the None of dict.get(k)
None == 0 - 2

(* ----------------- lines 393-395: empty graph guard ------------------- *)
\* the call without the guard
CheckEmptyUnguarded ==
    /\ pc = "start"
    /\ pc' = "detect"
    /\ UNCHANGED <<guiVars, graph, seed, raised, detectVars, metricVars, sectorVars, node_angles, placeVars>>

CheckEmpty ==
    /\ pc = "start"
    /\ pc' = IF graph.n = 0 THEN "returned" ELSE "detect"
    /\ UNCHANGED <<guiVars, graph, seed, raised, detectVars, metricVars, sectorVars, node_angles, placeVars>>

(* --------------- lines 410-431: community detection ------------------- *)
\* how a library call can end: it returns, the module cannot be imported, or
\* the call raises something else (a foreign module named community has no
\* best_partition, for one)
LouvainOutcomes == {"returns", "ImportError", "raises"}
LabelPropagationOutcomes == {"returns", "raises"}
\* the exceptions of the two calls that nothing catches
DetectionErrors == {"LouvainError", "LabelPropagationError"}

\* try / except ImportError (lines 412-426): the exception leaving the block
DetectionRaises(louvain, propagation) ==
    IF louvain = "raises" THEN "LouvainError"
    ELSE IF louvain = "ImportError" /\ propagation = "raises"
    THEN "LabelPropagationError"
    ELSE "none"

\* best_partition / label_propagation_communities are library calls on the
\* subgraph of connected nodes; either returns some partition of its nodes,
\* which lines 416-431 number 0..k-1.
DetectCommunities ==
    /\ pc = "detect"
    /\ \E louvain \in LouvainOutcomes, propagation \in LabelPropagationOutcomes :
          LET exception == DetectionRaises(louvain, propagation)
          IN  IF exception = "none"
              THEN /\ \E cm \in DetectorResults(graph) : community_map' = cm
                   /\ pc' = "analyze"
                   /\ UNCHANGED raised
              ELSE /\ raised' = exception
                   /\ pc' = "raised"
                   /\ UNCHANGED community_map
    /\ UNCHANGED <<guiVars, graph, seed, node_primary_community, node_cross_connectivity,
                   metricVars, sectorVars, node_angles, placeVars>>

(* ------------- lines 433-461: connectivity analysis ------------------- *)
\* algo_community_connections[c] for the neighbour list nbrs
CommCount(cm, nbrs, c) ==
    Cardinality({i \in 1..Len(nbrs) : MapGet(cm, nbrs[i], -1) = c})

\* ties broken by the lowest label
PrimaryCommunityLowestLabel(cm, nbrs) ==
    LET labels == {MapGet(cm, nbrs[i], -1) : i \in 1..Len(nbrs)}
    IN  CHOOSE c \in labels :
            \A e \in labels :
                \/ CommCount(cm, nbrs, e) < CommCount(cm, nbrs, c)
                \/ CommCount(cm, nbrs, e) = CommCount(cm, nbrs, c) /\ c <= e

\* max(algo_community_connections.items(), key=lambda x: x[1])[0]: the dict
\* is filled in neighbour order and max returns the first maximal item
PrimaryCommunity(cm, nbrs) ==
    LET cnt(i) == CommCount(cm, nbrs, MapGet(cm, nbrs[i], -1))
        best == CHOOSE i \in 1..Len(nbrs) :
                    /\ \A j \in 1..Len(nbrs) : cnt(j) <= cnt(i)
                    /\ \A j \in 1..(i - 1) : cnt(j) < cnt(i)
    IN  MapGet(cm, nbrs[best], -1)

\* cross_ratio = connections_outside / total_connections (lines 454-457)
CrossRatio(cm, nbrs) ==
    LET in_primary == CommCount(cm, nbrs, PrimaryCommunity(cm, nbrs))
    IN  Ratio(Len(nbrs) - in_primary, Len(nbrs))

\* the nodes the loop does not skip (line 443)
AnalyzedNodes(g) == {v \in Range(ConnectedNodes(g)) : Len(Neighbors(g, v)) > 0}

AnalyzeConnectivity ==
    /\ pc = "analyze"
    /\ node_primary_community' =
          [v \in AnalyzedNodes(graph) |-> PrimaryCommunity(community_map, Neighbors(graph, v))]
    /\ node_cross_connectivity' =
          [v \in AnalyzedNodes(graph) |-> CrossRatio(community_map, Neighbors(graph, v))]
    /\ pc' = "radius"
    /\ UNCHANGED <<guiVars, graph, seed, raised, community_map, metricVars, sectorVars,
                   node_angles, placeVars>>

(* ------------- lines 480-495, 545-555: target radius ------------------ *)
\* max(self.graph.degree(n) for n in layout_nodes)
MaxDegree(g) == CHOOSE d \in 0..Len(g.edges) :
                    /\ \A v \in 1..g.n : Degree(g, v) <= d
                    /\ \E v \in 1..g.n : Degree(g, v) = d

\* a radius that grows with the degree
TargetRadiusGrowing(degree, maxdeg) ==
    IF maxdeg > 0 THEN (max_radius * degree) \div maxdeg
    ELSE max_radius

\* max_radius * (1.0 - degree / max_degree), or max_radius when max_degree = 0
TargetRadius(degree, maxdeg) ==
    IF maxdeg > 0 THEN (max_radius * (maxdeg - degree)) \div maxdeg
    ELSE max_radius

AssignRadius ==
    /\ pc = "radius"
    /\ max_degree' = MaxDegree(graph)
    /\ node_radius' = [v \in 1..graph.n |-> TargetRadius(Degree(graph, v), MaxDegree(graph))]
    /\ pc' = "sectors"
    /\ UNCHANGED <<guiVars, graph, seed, raised, detectVars, node_visual_size, temp_node_cohesion,
                   sectorVars, node_angles, placeVars>>

(* ------------- lines 513-543: sector allocation ----------------------- *)
\* sorted(S) for a set of integers
RECURSIVE SortedSeq(_)
SortedSeq(S) ==
    IF S = {} THEN <<>>
    ELSE LET m == CHOOSE x \in S : \A y \in S : x <= y
         IN  <<m>> \o SortedSeq(S \ {m})

\* comm_sizes (lines 518-522): nodes per primary community
CommSizes(npc) ==
    [c \in {npc[v] : v \in DOMAIN npc} |-> Cardinality({v \in DOMAIN npc : npc[v] = c})]

\* sum(comm_sizes.values())
TotalNodes(sizes) == SumSeq([i \in 1..Len(SortedSeq(DOMAIN sizes)) |->
                                sizes[SortedSeq(DOMAIN sizes)[i]]])

\* usable_angle = 2 * math.pi * 0.85 (line 529)
usable_angle == (FULL * 85) \div 100
\* the numerator of gap_per_community, 2 * math.pi * 0.15 (line 530)
gap_total == (FULL * 15) \div 100

\* spans that share the whole circle, leaving no room for the gaps
AngleSpanFullCircle(size, total) == (size * FULL) \div total

\* angle_span = (size / total_nodes) * usable_angle
AngleSpan(size, total) == (size * usable_angle) \div total

\* the loops of lines 536-543 (centered) and 622-627: the sectors in the
\* given order, each followed by one gap; result [base, span] per community
RECURSIVE LayOutSectors(_, _, _, _, _, _)
LayOutSectors(order, sizes, total, gap, current, centered) ==
    IF order = <<>> THEN EmptyMap
    ELSE LET c == order[1]
             span == AngleSpan(sizes[c], total)
             rest == LayOutSectors(Tail(order), sizes, total, gap,
                                   current + span + gap, centered)
             base == IF centered THEN current + span \div 2 ELSE current
         IN  [x \in DOMAIN rest \cup {c} |->
                 IF x = c THEN [base |-> base, span |-> span] ELSE rest[x]]

AllocateSectors ==
    /\ pc = "sectors"
    /\ LET sizes == CommSizes(node_primary_community)
           community_list == SortedSeq(DOMAIN sizes)
           num_communities == Len(community_list)
       IN  IF num_communities = 0
           THEN \* line 530 divides by num_communities
                /\ raised' = "ZeroDivisionError"
                /\ pc' = "raised"
                /\ UNCHANGED sectorVars
           ELSE LET gap == gap_total \div num_communities
                    lay == LayOutSectors(community_list, sizes, TotalNodes(sizes),
                                         gap, 0, TRUE)
                IN  /\ comm_sizes' = sizes
                    /\ gap_per_community' = gap
                    /\ community_base_angles' = [c \in DOMAIN lay |-> lay[c].base]
                    /\ community_angle_span' = [c \in DOMAIN lay |-> lay[c].span]
                    /\ sector_order' = community_list
                    /\ pc' = "metrics"
                    /\ UNCHANGED raised
    /\ UNCHANGED <<guiVars, graph, seed, detectVars, metricVars, node_angles, placeVars>>

(* ------------- lines 545-575: radius, visual size, cohesion ----------- *)
\* node_visual_size: base_size 10, plus min(degree * 0.5, 40) when connected
VisualSize(degree) ==
    IF degree = 0 THEN 10 * LU
    ELSE 10 * LU + Min2((degree * LU) \div 2, 40 * LU)

\* [n for n in neighbors if node_primary_community.get(n) == node_comm]
SameCommNeighbors(npc, nbrs, comm) ==
    SelectSeq(nbrs, LAMBDA n : MapGet(npc, n, None) = comm)

\* the node counted among its own connections
CohesionCountingSelf(g, npc, v) ==
    IF v \in DOMAIN npc
    THEN LET nbrs == Neighbors(g, v)
         IN  IF nbrs # <<>>
             THEN Ratio(Len(SameCommNeighbors(npc, nbrs, npc[v])), Len(nbrs) + 1)
             ELSE RatioZero
    ELSE RatioZero

\* temp_node_cohesion[node] (lines 565-575)
Cohesion(g, npc, v) ==
    IF v \in DOMAIN npc
    THEN LET nbrs == Neighbors(g, v)
         IN  IF nbrs # <<>>
             THEN Ratio(Len(SameCommNeighbors(npc, nbrs, npc[v])), Len(nbrs))
             ELSE RatioZero
    ELSE RatioZero

NodeMetrics ==
    /\ pc = "metrics"
    /\ node_radius' = [v \in 1..graph.n |-> TargetRadius(Degree(graph, v), max_degree)]
    /\ node_visual_size' = [v \in 1..graph.n |-> VisualSize(Degree(graph, v))]
    /\ temp_node_cohesion' =
          [v \in 1..graph.n |-> Cohesion(graph, node_primary_community, v)]
    /\ pc' = "angles"
    /\ UNCHANGED <<guiVars, graph, seed, raised, detectVars, max_degree, sectorVars,
                   node_angles, placeVars>>

(* ------------- lines 577-616: initial node angles --------------------- *)
\* index of x in the list s
IndexOf(s, x) == CHOOSE i \in 1..Len(s) : s[i] = x

\* node_angles[node] for a node with a primary community (lines 580-608)
SectorAngle(base_angle, angle_span, coh, level) ==
    LET center_angle == base_angle + angle_span \div 2
        use_span == (angle_span * 85) \div 100
        angular_offset ==
            IF RLt(coh, Ratio(1, 2))
            THEN \* edge_direction * edge_factor * 0.5 * use_span
                 ChoiceSign(level) * (((coh.d - 2 * coh.n) * use_span) \div (2 * coh.d))
            ELSE \* random.uniform(-0.1, 0.1) * (1.0 - center_factor) * use_span
                 (Uniform(-10, 10, level) * (2 * coh.d - 2 * coh.n) * (use_span \div 100))
                     \div coh.d
    IN  center_angle + angular_offset

NodeAngle(g, npc, v, level) ==
    IF v \in DOMAIN npc
    THEN SectorAngle(community_base_angles[npc[v]], community_angle_span[npc[v]],
                     MapGet(temp_node_cohesion, v, RatioZero), level)
    ELSE \* isolated_list = nodes without a primary community (lines 611-614)
         LET isolated_list == SelectSeq(NodeList(g), LAMBDA n : n \notin DOMAIN npc)
         IN  ((IndexOf(isolated_list, v) - 1) * FULL) \div Max2(Len(isolated_list), 1)

AssignAngles ==
    /\ pc = "angles"
    /\ node_angles' = [v \in 1..graph.n |->
                          NodeAngle(graph, node_primary_community, v, Draw(seed, v))]
    /\ seed' = NextSeed(seed)
    /\ pc' = "bounds"
    /\ UNCHANGED <<guiVars, graph, raised, detectVars, metricVars, sectorVars, placeVars>>

(* ------------- lines 618-627: stored sector bounds -------------------- *)
\* comm_sizes.keys(): insertion order, by the first node of each community
KeyOrder(nodes, npc) ==
    LET firsts == SelectSeq([i \in 1..Len(nodes) |-> i],
                            LAMBDA i : /\ nodes[i] \in DOMAIN npc
                                       /\ \A j \in 1..(i - 1) :
                                              \/ nodes[j] \notin DOMAIN npc
                                              \/ npc[nodes[j]] # npc[nodes[i]])
    IN  [k \in 1..Len(firsts) |-> npc[nodes[firsts[k]]]]

\* an ascending sort
RECURSIVE InsertAsc(_, _, _)
InsertAsc(sorted, c, sizes) ==
    IF sorted = <<>> THEN <<c>>
    ELSE IF sizes[sorted[1]] <= sizes[c]
         THEN <<sorted[1]>> \o InsertAsc(Tail(sorted), c, sizes)
         ELSE <<c>> \o sorted

\* sorted(keys, key=lambda c: comm_sizes[c], reverse=True): stable, so equal
\* sizes keep their order in keys
RECURSIVE InsertDesc(_, _, _)
InsertDesc(sorted, c, sizes) ==
    IF sorted = <<>> THEN <<c>>
    ELSE IF sizes[sorted[1]] >= sizes[c]
         THEN <<sorted[1]>> \o InsertDesc(Tail(sorted), c, sizes)
         ELSE <<c>> \o sorted

RECURSIVE SortBySizeDesc(_, _)
SortBySizeDesc(keys, sizes) ==
    IF keys = <<>> THEN <<>>
    ELSE InsertDesc(SortBySizeDesc(SubSeq(keys, 1, Len(keys) - 1), sizes),
                    keys[Len(keys)], sizes)

StoreSectorBounds ==
    /\ pc = "bounds"
    /\ LET order == SortBySizeDesc(KeyOrder(NodeList(graph), node_primary_community),
                                   comm_sizes)
           lay == LayOutSectors(order, comm_sizes, TotalNodes(comm_sizes),
                                gap_per_community, 0, FALSE)
       IN  /\ sector_order' = order
           /\ community_base_angles' = [c \in DOMAIN lay |-> lay[c].base]
           /\ community_angle_span' = [c \in DOMAIN lay |-> lay[c].span]
    /\ pc' = "isolated"
    /\ UNCHANGED <<guiVars, graph, seed, raised, detectVars, metricVars, comm_sizes,
                   gap_per_community, node_angles, placeVars>>

(* ------------- lines 629-643: isolated nodes on the corner grid ------- *)
\* int(math.ceil(math.sqrt(m)))
\* the square root rounded down
FloorSqrt(m) == CHOOSE g \in 0..m : g * g <= m /\ (g + 1) * (g + 1) > m

CeilSqrt(m) == CHOOSE g \in 0..m : g * g >= m /\ \A h \in 0..(g - 1) : h * h < m

grid_spacing == 25 * LU
grid_offset == max_radius + 50 * LU

\* a grid without the corner offset
GridPositionAtOrigin(idx, grid_size) ==
    <<(idx % grid_size) * grid_spacing, (idx \div grid_size) * grid_spacing>>

\* a grid that keeps every node in the first row
GridPositionOneRow(idx, grid_size) ==
    <<(idx % grid_size) * grid_spacing + grid_offset, grid_offset>>

\* pos[node] for the idx-th (0-based) isolated node
GridPosition(idx, grid_size) ==
    <<(idx % grid_size) * grid_spacing + grid_offset,
      (idx \div grid_size) * grid_spacing + grid_offset>>

PlaceIsolated ==
    /\ pc = "isolated"
    /\ LET isolated_nodes == IsolatedNodes(graph)
           grid_size == IF isolated_nodes # <<>> THEN CeilSqrt(Len(isolated_nodes)) ELSE 0
       IN  pos' = [v \in Range(isolated_nodes) |->
                      GridPosition(IndexOf(isolated_nodes, v) - 1, grid_size)]
    /\ pc' = "anchors"
    /\ UNCHANGED <<guiVars, graph, seed, raised, detectVars, metricVars, sectorVars, node_angles,
                   anchor_nodes, remaining_nodes, community_centers, iteration>>

AnalysisNext ==
    \/ CheckEmpty
    \/ DetectCommunities
    \/ AnalyzeConnectivity
    \/ AssignRadius
    \/ AllocateSectors
    \/ NodeMetrics
    \/ AssignAngles
    \/ StoreSectorBounds
    \/ PlaceIsolated

Spec == Init /\ [][AnalysisNext]_vars

(* ======================= positions: number model ====================== *)
\* Positions are pairs <<x, y>> of coordinates.  math.sin and math.tan are
\* tabulated per degree, scaled by 10000, and interpolated linearly.
SinTable ==
    <<
       0, 175, 349, 523, 698, 872, 1045, 1219, 1392, 1564,
       1736, 1908, 2079, 2250, 2419, 2588, 2756, 2924, 3090, 3256,
       3420, 3584, 3746, 3907, 4067, 4226, 4384, 4540, 4695, 4848,
       5000, 5150, 5299, 5446, 5592, 5736, 5878, 6018, 6157, 6293,
       6428, 6561, 6691, 6820, 6947, 7071, 7193, 7314, 7431, 7547,
       7660, 7771, 7880, 7986, 8090, 8192, 8290, 8387, 8480, 8572,
       8660, 8746, 8829, 8910, 8988, 9063, 9135, 9205, 9272, 9336,
       9397, 9455, 9511, 9563, 9613, 9659, 9703, 9744, 9781, 9816,
       9848, 9877, 9903, 9925, 9945, 9962, 9976, 9986, 9994, 9998,
       10000
    >>
TanTable ==
    <<
       0, 175, 349, 524, 699, 875, 1051, 1228, 1405, 1584,
       1763, 1944, 2126, 2309, 2493, 2679, 2867, 3057, 3249, 3443,
       3640, 3839, 4040, 4245, 4452, 4663, 4877, 5095, 5317, 5543,
       5774, 6009, 6249, 6494, 6745, 7002, 7265, 7536, 7813, 8098,
       8391, 8693, 9004, 9325, 9657, 10000
    >>

Abs(a) == IF a < 0 THEN 0 - a ELSE a

\* sine of an angle of the first quadrant, 0..90000 millidegrees
SinQ(a) ==
    LET k == a \div 1000
        f == a % 1000
    IN  IF k >= 90 THEN SinTable[91]
        ELSE SinTable[k + 1] + ((SinTable[k + 2] - SinTable[k + 1]) * f) \div 1000

\* 10000 * math.sin(a), 10000 * math.cos(a) for an angle in millidegrees
Sin(a) ==
    LET b == a % FULL
    IN  IF b <= 90000 THEN SinQ(b)
        ELSE IF b <= 180000 THEN SinQ(180000 - b)
        ELSE IF b <= 270000 THEN 0 - SinQ(b - 180000)
        ELSE 0 - SinQ(FULL - b)
Cos(a) == Sin(a + 90000)

\* arctangent in millidegrees of t / 10000, for 0 <= t <= 10000
ArcTan(t) ==
    IF t >= TanTable[46] THEN 45000
    ELSE LET k == CHOOSE j \in 1..45 : TanTable[j] <= t /\ t < TanTable[j + 1]
         IN  (k - 1) * 1000 + ((t - TanTable[k]) * 1000) \div (TanTable[k + 1] - TanTable[k])

\* math.atan2(y, x) % (2 * math.pi), in millidegrees; atan2(0, 0) = 0
Atan2(y, x) ==
    IF x = 0 /\ y = 0 THEN 0
    ELSE LET ax == Abs(x)
             ay == Abs(y)
             a == IF ay <= ax THEN ArcTan((ay * 10000) \div ax)
                  ELSE 90000 - ArcTan((ax * 10000) \div ay)
         IN  IF x >= 0 /\ y >= 0 THEN a
             ELSE IF x < 0 /\ y >= 0 THEN 180000 - a
             ELSE IF x < 0 THEN 180000 + a
             ELSE (FULL - a) % FULL

\* int(math.sqrt(n)) by bisection
RECURSIVE SqrtBetween(_, _, _)
SqrtBetween(n, lo, hi) ==
    IF hi - lo <= 1 THEN lo
    ELSE LET mid == (lo + hi) \div 2
         IN  IF mid * mid <= n THEN SqrtBetween(n, mid, hi) ELSE SqrtBetween(n, lo, mid)
ISqrt(n) == SqrtBetween(n, 0, 46341)

\* math.sqrt(x**2 + y**2), rounded to nearest
Norm(x, y) ==
    LET n == x * x + y * y
        r == ISqrt(n)
    IN  IF n - r * r > r THEN r + 1 ELSE r

\* (radius * math.cos(angle), radius * math.sin(angle)), rounded to nearest
Polar(radius, angle) ==
    <<(radius * Cos(angle) + 5000) \div 10000, (radius * Sin(angle) + 5000) \div 10000>>

\* an angle given in thousandths of a radian, in millidegrees
Rad(milli) == (milli * 180000) \div 3142

(* ------------- lines 645-685: anchors and community centres ----------- *)
\* the j-th random draw made for node v in the running stage
NodeDraw(s, v, j) == Draw(s, v * 8 + j)

\* random.uniform(-f, f) * value, f in thousandths
Jitter(f, value, level) == (Uniform(0 - f, f, level) * value) \div 1000

\* key (cohesion, degree) of a is >= that of b
KeyGe(g, coh, a, b) ==
    LET ca == MapGet(coh, a, RatioZero)
        cb == MapGet(coh, b, RatioZero)
    IN  \/ RLt(cb, ca)
        \/ REq(ca, cb) /\ Degree(g, a) >= Degree(g, b)

\* sorted(connected_nodes, key=..., reverse=True): stable
\* the node at index j comes before the node at index i in the sorted list
SortsBefore(nodes, j, i, g, coh) ==
    IF j < i THEN KeyGe(g, coh, nodes[j], nodes[i])
    ELSE j > i /\ ~KeyGe(g, coh, nodes[i], nodes[j])

NodesByCohesion(nodes, g, coh) ==
    LET n == Len(nodes)
        ranked == {<<i, 1 + Cardinality({j \in 1..n : SortsBefore(nodes, j, i, g, coh)})>> :
                      i \in 1..n}
    IN  [k \in 1..n |-> nodes[(CHOOSE r \in ranked : r[2] = k)[1]]]

\* a tenth rounded up
NumAnchorsCeil(n) == Max2(1, (n + 9) \div 10)

\* num_anchors = max(1, len(nodes_by_cohesion) // 10)
NumAnchors(n) == Max2(1, n \div 10)

\* pos[node] of an anchor (lines 667-676)
AnchorPosition(radius, angle, level) ==
    Polar(Max2(0, radius + Jitter(450, radius, level)), angle)

\* mean position of the nodes of the list ns
Centroid(p, ns) ==
    <<SumSeq([i \in 1..Len(ns) |-> p[ns[i]][1]]) \div Len(ns),
      SumSeq([i \in 1..Len(ns) |-> p[ns[i]][2]]) \div Len(ns)>>

\* a variant that gives the origin as centre to a community without anchor
CommunityCentersWithOrigin(p, npc, anchors) ==
    LET comm_anchors(c) == SelectSeq(anchors, LAMBDA n : MapGet(npc, n, None) = c)
    IN  [c \in {npc[v] : v \in DOMAIN npc} |->
            IF comm_anchors(c) = <<>> THEN <<0, 0>> ELSE Centroid(p, comm_anchors(c))]

\* community_centers (lines 679-685): only communities with an anchor
CommunityCenters(p, npc, anchors) ==
    LET comm_anchors(c) == SelectSeq(anchors, LAMBDA n : MapGet(npc, n, None) = c)
    IN  [c \in {c \in {npc[v] : v \in DOMAIN npc} : comm_anchors(c) # <<>>} |->
            Centroid(p, comm_anchors(c))]

PlaceAnchors ==
    /\ pc = "anchors"
    /\ LET sorted == NodesByCohesion(ConnectedNodes(graph), graph, temp_node_cohesion)
           num_anchors == NumAnchors(Len(sorted))
           anchors == SubSeq(sorted, 1, Min2(num_anchors, Len(sorted)))
           placed == [v \in DOMAIN pos \cup Range(anchors) |->
                         IF v \in Range(anchors)
                         THEN AnchorPosition(node_radius[v], node_angles[v],
                                             NodeDraw(seed, v, 0))
                         ELSE pos[v]]
       IN  /\ anchor_nodes' = anchors
           /\ remaining_nodes' = SubSeq(sorted, Min2(num_anchors, Len(sorted)) + 1, Len(sorted))
           /\ pos' = placed
           /\ community_centers' = CommunityCenters(placed, node_primary_community, anchors)
    /\ seed' = NextSeed(seed)
    /\ pc' = "remaining"
    /\ UNCHANGED <<guiVars, graph, raised, detectVars, metricVars, sectorVars, node_angles, iteration>>

(* ------------- sector clamps (lines 782-806, 909-933, 1060-1082) ------ *)
\* the clamp of an angle into [base, base + span]: an angle outside is put
\* `inward` inside the nearer end (for an unwrapped sector: the end it passed)
ClampToSector(angle0, base_angle, angle_span, inward) ==
    LET angle == angle0 % FULL
        min_angle == base_angle % FULL
        max_angle == (base_angle + angle_span) % FULL
    IN  IF min_angle < max_angle
        THEN IF angle < min_angle THEN min_angle + inward
             ELSE IF angle > max_angle THEN max_angle - inward
             ELSE angle
        ELSE IF angle > max_angle /\ angle < min_angle
             THEN IF Abs(angle - max_angle) < Abs(angle - min_angle)
                  THEN max_angle - inward
                  ELSE min_angle + inward
             ELSE angle

(* ------------- lines 687-834: initial placement of the other nodes --- *)
\* the nodes of the list ns that have a position
Positioned(p, ns) == SelectSeq(ns, LAMBDA n : n \in DOMAIN p)

\* [n for n in neighbors if node_primary_community.get(n) != node_comm]
CrossCommNeighbors(npc, nbrs, comm) ==
    SelectSeq(nbrs, LAMBDA n : MapGet(npc, n, None) # comm)

\* max_intra (lines 751-752): the most same-community neighbours any node of
\* the community has; default=1 applies to an empty list only
MaxIntra(g, npc, comm) ==
    LET members == SelectSeq(ConnectedNodes(g), LAMBDA cn : MapGet(npc, cn, None) = comm)
        intra(cn) == Len(SameCommNeighbors(npc, Neighbors(g, cn), comm))
    IN  IF members = <<>> THEN 1
        ELSE intra(CHOOSE cn \in Range(members) : \A o \in Range(members) : intra(o) <= intra(cn))

\* the attractor blend of lines 699-742
InitialCentroid(p, v, coh, node_comm, same, cross, angle, level) ==
    LET cc == MapGet(community_centers, node_comm, <<0, 0>>)
    IN  IF same # <<>>
        THEN LET sc == Centroid(p, same)
             IN  IF cross # <<>> /\ RLt(coh, Ratio(7, 10))
                 THEN LET xc == Centroid(p, cross)
                          center_weight == (100 * coh.n * coh.n) \div (coh.d * coh.d)
                          same_weight == (400 * coh.n) \div coh.d
                          cross_weight == (1200 * (coh.d - coh.n)) \div coh.d
                          total_weight == center_weight + same_weight + cross_weight
                      IN  <<(cc[1] * center_weight + sc[1] * same_weight + xc[1] * cross_weight)
                                \div total_weight,
                            (cc[2] * center_weight + sc[2] * same_weight + xc[2] * cross_weight)
                                \div total_weight>>
                 ELSE LET center_weight == (900 * coh.n) \div coh.d
                      IN  <<(cc[1] * center_weight + sc[1] * 100) \div 1000,
                            (cc[2] * center_weight + sc[2] * 100) \div 1000>>
        ELSE IF cc = <<0, 0>>
             THEN Polar(100 * LU, angle + Uniform(0 - Rad(250), Rad(250), level))
             ELSE cc

\* pos[node] of one remaining node, given the positions set so far
RemainingPosition(p, v, s) ==
    LET coh == MapGet(temp_node_cohesion, v, RatioZero)
        node_comm == MapGet(node_primary_community, v, None)
        neighbors == Positioned(p, Neighbors(graph, v))
    IN  IF neighbors # <<>> /\ node_comm # None
        THEN LET same == SameCommNeighbors(node_primary_community, neighbors, node_comm)
                 cross == CrossCommNeighbors(node_primary_community, neighbors, node_comm)
                 centroid == InitialCentroid(p, v, coh, node_comm, same, cross,
                                             node_angles[v], NodeDraw(s, v, 0))
                 max_intra == MaxIntra(graph, node_primary_community, node_comm)
                 intra_strength == IF max_intra > 0 THEN (1000 * Len(same)) \div max_intra ELSE 0
                 combined_centrality == (700 * coh.n) \div coh.d + (300 * intra_strength) \div 1000
                 cohesion_modifier == 300 + ((1000 - combined_centrality) * 1200) \div 1000
                 target_radius == (node_radius[v] * cohesion_modifier) \div 1000
                 current_radius == Norm(centroid[1], centroid[2])
             IN  IF current_radius > 0
                 THEN LET jitter_amount == 100 + ((1000 - intra_strength) * 200) \div 1000
                          adjusted_radius ==
                              Max2(0, target_radius +
                                      Jitter(jitter_amount, target_radius, NodeDraw(s, v, 1)))
                          x == (centroid[1] * adjusted_radius) \div current_radius
                          y == (centroid[2] * adjusted_radius) \div current_radius
                          jittered == Polar(Norm(x, y),
                                            Atan2(y, x) + Uniform(0 - Rad(350), Rad(350),
                                                                  NodeDraw(s, v, 2)))
                          angle == ClampToSector(Atan2(jittered[2], jittered[1]),
                                                 community_base_angles[node_comm],
                                                 community_angle_span[node_comm], Rad(10))
                          final_radius == Max2(0, target_radius +
                                                  Jitter(200, target_radius, NodeDraw(s, v, 3)))
                      IN  Polar(final_radius, angle)
                 ELSE Polar(Max2(0, target_radius +
                                    Jitter(300, target_radius, NodeDraw(s, v, 2))),
                            node_angles[v] + Uniform(0 - Rad(300), Rad(300), NodeDraw(s, v, 1)))
        ELSE Polar(Max2(0, node_radius[v] + Jitter(350, node_radius[v], NodeDraw(s, v, 2))),
                   node_angles[v] + Uniform(0 - Rad(300), Rad(300), NodeDraw(s, v, 1)))

\* the loop of line 689: each node sees the positions of those before it
RECURSIVE PlaceLoop(_, _, _)
PlaceLoop(p, nodes, s) ==
    IF nodes = <<>> THEN EmptyMap
    ELSE IF Len(nodes) = 1 THEN nodes[1] :> RemainingPosition(p, nodes[1], s)
    ELSE LET half == Len(nodes) \div 2
             front == PlaceLoop(p, SubSeq(nodes, 1, half), s)
         IN  front @@ PlaceLoop(front @@ p, SubSeq(nodes, half + 1, Len(nodes)), s)

\* pos after the loop of lines 687-834
PlaceAll(p, nodes, s) == PlaceLoop(p, nodes, s) @@ p

PlaceRemaining ==
    /\ pc = "remaining"
    /\ pos' = PlaceAll(pos, remaining_nodes, seed)
    /\ seed' = NextSeed(seed)
    /\ iteration' = 0
    /\ pc' = "refine"
    /\ UNCHANGED <<guiVars, graph, raised, detectVars, metricVars, sectorVars, node_angles,
                   anchor_nodes, remaining_nodes, community_centers>>

(* ------------- radius and angle constraints of a pass ----------------- *)
\* a variant without the radial limits
ClampRadiusOff(pt, target_radius) == pt

\* lines 895-907, 997-1008: scale a point into [0.40, 1.60] * target_radius
ClampRadius(pt, target_radius) ==
    LET current_radius == Norm(pt[1], pt[2])
        min_radius == (target_radius * 400) \div 1000
        max_radius_ == (target_radius * 1600) \div 1000
    IN  IF current_radius < min_radius
        THEN <<(pt[1] * min_radius) \div current_radius,
               (pt[2] * min_radius) \div current_radius>>
        ELSE IF current_radius > max_radius_
        THEN <<(pt[1] * max_radius_) \div current_radius,
               (pt[2] * max_radius_) \div current_radius>>
        ELSE pt

\* lines 911-938, 1061-1087: soft clamp of a point into the sector, keeping
\* its radius.  cos and sin of the point's own atan2 give the point back, so a
\* point whose angle the clamp leaves alone is unchanged.
ClampPointToSector(pt, base_angle, angle_span, level) ==
    LET angle == Atan2(pt[2], pt[1])
        clamped == ClampToSector(angle, base_angle, angle_span,
                                 Uniform(Rad(20), Rad(150), level))
    IN  IF clamped = angle THEN pt ELSE Polar(Norm(pt[1], pt[2]), clamped)

(* ------------- lines 838-944: one refinement pass --------------------- *)
\* the pull of lines 856-885
RefineTarget(p, v, node_comm, same, cohesion) ==
    IF same # <<>> /\ node_comm \in DOMAIN community_centers
    THEN LET centroid == Centroid(p, same)
             center == community_centers[node_comm]
             curr == p[v]
             sq == (cohesion.n * cohesion.n * 1000) \div (cohesion.d * cohesion.d)
             comm_strength == IF v \in Range(anchor_nodes) THEN (50 * sq) \div 1000
                              ELSE (600 * sq) \div 1000
             neighbor_strength == IF v \in Range(anchor_nodes) THEN 120 ELSE 400
             repulsion_strength ==
                 IF RLt(cohesion, Ratio(2, 5))
                 THEN (200 * cohesion.d - 500 * cohesion.n) \div cohesion.d
                 ELSE 0
             \* the three displacements are summed before the rounding, so that
             \* pulls which cancel give the centre exactly, as they do in the source
             pull(k) == curr[k] + ((center[k] - curr[k]) * comm_strength
                                   + (centroid[k] - curr[k]) * neighbor_strength
                                   + (curr[k] - center[k]) * repulsion_strength) \div 1000
         IN  <<pull(1), pull(2)>>
    ELSE p[v]

\* new_pos[node] (lines 841-942)
RefinedPosition(p, v, s) ==
    LET node_comm == MapGet(node_primary_community, v, None)
        neighbors == Positioned(p, Neighbors(graph, v))
    IN  IF neighbors = <<>> THEN p[v]
        ELSE LET same == SameCommNeighbors(node_primary_community, neighbors, node_comm)
                 local == IF same # <<>> THEN Ratio(Len(same), Len(neighbors)) ELSE RatioZero
                 target == RefineTarget(p, v, node_comm, same, local)
                 cohesion == MapGet(temp_node_cohesion, v, RatioZero)
                 cohesion_modifier == 700 + (600 * (cohesion.d - cohesion.n)) \div cohesion.d
                 target_radius == (node_radius[v] * cohesion_modifier) \div 1000
             IN  IF Norm(target[1], target[2]) > 0
                 THEN IF node_comm \in DOMAIN community_base_angles
                      THEN ClampPointToSector(ClampRadius(target, target_radius),
                                              community_base_angles[node_comm],
                                              community_angle_span[node_comm],
                                              NodeDraw(s, v, 0))
                      ELSE ClampRadius(target, target_radius)
                 ELSE p[v]

\* new_pos of one pass: every connected node is moved from the positions
\* held before the pass; pos.update(new_pos) then replaces them together
\* pos.update(new_pos) (lines 944, 1091)
Updated(p, new_pos) == [v \in DOMAIN p \cup DOMAIN new_pos |->
                           IF v \in DOMAIN new_pos THEN new_pos[v] ELSE p[v]]

\* the node loop writing into the positions it reads
RECURSIVE RefineLoopInPlace(_, _, _)
RefineLoopInPlace(p, nodes, s) ==
    IF nodes = <<>> THEN EmptyMap
    ELSE IF Len(nodes) = 1 THEN nodes[1] :> RefinedPosition(p, nodes[1], s)
    ELSE LET half == Len(nodes) \div 2
             front == RefineLoopInPlace(p, SubSeq(nodes, 1, half), s)
         IN  front @@ RefineLoopInPlace(front @@ p, SubSeq(nodes, half + 1, Len(nodes)), s)

\* for node in connected_nodes (lines 840-942): the new_pos that the loop
\* fills node by node, every node reading pos as it was when the pass began
RECURSIVE RefineLoop(_, _, _)
RefineLoop(p, nodes, s) ==
    IF nodes = <<>> THEN EmptyMap
    ELSE IF Len(nodes) = 1 THEN nodes[1] :> RefinedPosition(p, nodes[1], s)
    ELSE LET half == Len(nodes) \div 2
             front == RefineLoop(p, SubSeq(nodes, 1, half), s)
         IN  front @@ RefineLoop(p, SubSeq(nodes, half + 1, Len(nodes)), s)

\* pos after one refinement pass (lines 839-944)
RefineAll(p, nodes, s) == Updated(p, RefineLoop(p, nodes, s))

refine_passes == 60
collision_passes == 80

RefinePass ==
    /\ pc = "refine"
    /\ iteration < refine_passes
    /\ pos' = RefineAll(pos, ConnectedNodes(graph), seed)
    /\ seed' = NextSeed(seed)
    /\ iteration' = IF iteration + 1 = refine_passes THEN 0 ELSE iteration + 1
    /\ pc' = IF iteration + 1 = refine_passes THEN "collide" ELSE "refine"
    /\ UNCHANGED <<guiVars, graph, raised, detectVars, metricVars, sectorVars, node_angles,
                   anchor_nodes, remaining_nodes, community_centers>>

(* ------------- lines 948-1091: one collision pass --------------------- *)
\* min_dist of a pair (lines 978-981)
MinDist(a, b) ==
    IF MapGet(node_primary_community, a, None) # MapGet(node_primary_community, b, None)
    THEN (node_visual_size[a] + node_visual_size[b]) * 2
    ELSE ((node_visual_size[a] + node_visual_size[b]) * 13) \div 10

\* the contribution of other_node to repulsion_x, repulsion_y (lines 968-988)
Repulsion(p, v, other) ==
    LET dx == p[v][1] - p[other][1]
        dy == p[v][2] - p[other][2]
        min_dist == MinDist(v, other)
    IN  IF dx * dx + dy * dy < min_dist * min_dist /\ dx * dx + dy * dy > 0
        THEN LET dist == Norm(dx, dy)
             IN  <<(dx * (min_dist - dist)) \div dist, (dy * (min_dist - dist)) \div dist>>
        ELSE <<0, 0>>

\* repulsion_x, repulsion_y summed over the other connected nodes (964-988)
RECURSIVE TotalRepulsion(_, _, _)
TotalRepulsion(p, v, others) ==
    IF others = <<>> THEN <<0, 0>>
    ELSE IF Len(others) = 1
    THEN IF others[1] = v THEN <<0, 0>> ELSE Repulsion(p, v, others[1])
    ELSE LET half == Len(others) \div 2
             front == TotalRepulsion(p, v, SubSeq(others, 1, half))
             back == TotalRepulsion(p, v, SubSeq(others, half + 1, Len(others)))
         IN  <<front[1] + back[1], front[2] + back[2]>>

\* cross_comm_counts and its first maximal key (lines 1019-1029)
TopCrossComm(npc, cross) ==
    LET cnt(i) == Cardinality({j \in 1..Len(cross) : npc[cross[j]] = npc[cross[i]]})
        best == CHOOSE i \in 1..Len(cross) :
                    /\ \A j \in 1..Len(cross) : cnt(j) <= cnt(i)
                    /\ \A j \in 1..(i - 1) : cnt(j) < cnt(i)
    IN  [comm |-> npc[cross[best]], count |-> cnt(best)]

\* lines 1012-1058: the angular drift of a heavily split node
DriftPosition(pt, v, node_comm, neighbors, same) ==
    LET cross == SelectSeq(CrossCommNeighbors(node_primary_community, neighbors, node_comm),
                           LAMBDA n : n \in DOMAIN node_primary_community)
    IN  IF cross = <<>> THEN pt
        ELSE LET top == TopCrossComm(node_primary_community, cross)
                 same_count == Len(same)
                 balanced == 2 * top.count > same_count + top.count
                 significant == 10 * top.count > 4 * Len(neighbors)
             IN  IF balanced /\ significant /\ top.comm \in DOMAIN community_base_angles
                 THEN LET target_center == community_base_angles[top.comm]
                                           + community_angle_span[top.comm] \div 2
                          current_center == community_base_angles[node_comm]
                                            + community_angle_span[node_comm] \div 2
                          new_center == current_center
                                        + ((target_center - current_center)
                                           * (top.count - same_count))
                                          \div (2 * (top.count + same_count))
                      IN  Polar(Norm(pt[1], pt[2]), new_center)
                 ELSE pt

\* new_pos[node] (lines 951-1089)
CollidedPosition(p, v, nodes, s) ==
    LET node_comm == MapGet(node_primary_community, v, None)
        neighbors == Neighbors(graph, v)
        same == SameCommNeighbors(node_primary_community, neighbors, node_comm)
        split == neighbors # <<>> /\ 2 * (Len(neighbors) - Len(same)) > Len(neighbors)
        repulsion == TotalRepulsion(p, v, nodes)
        moved == <<p[v][1] + (repulsion[1] * 80) \div 1000,
                   p[v][2] + (repulsion[2] * 80) \div 1000>>
    IN  IF Norm(moved[1], moved[2]) > 0
        THEN LET scaled == ClampRadius(moved, node_radius[v])
             IN  IF node_comm \in DOMAIN community_base_angles /\ split
                 THEN DriftPosition(scaled, v, node_comm, neighbors, same)
                 ELSE IF node_comm \in DOMAIN community_base_angles
                 THEN ClampPointToSector(scaled, community_base_angles[node_comm],
                                         community_angle_span[node_comm], NodeDraw(s, v, 0))
                 ELSE scaled
        ELSE moved

\* for node in connected_nodes (lines 950-1089): the new_pos that the loop
\* fills node by node, every node reading pos as it was when the pass began
RECURSIVE CollideLoop(_, _, _, _)
CollideLoop(p, todo, nodes, s) ==
    IF todo = <<>> THEN EmptyMap
    ELSE IF Len(todo) = 1 THEN todo[1] :> CollidedPosition(p, todo[1], nodes, s)
    ELSE LET half == Len(todo) \div 2
             front == CollideLoop(p, SubSeq(todo, 1, half), nodes, s)
         IN  front @@ CollideLoop(p, SubSeq(todo, half + 1, Len(todo)), nodes, s)

\* a pass over every positioned node, the isolated ones among them
CollideAllPositioned(p, nodes, s) ==
    Updated(p, CollideLoop(p, NodeList(graph), NodeList(graph), s))

\* pos after one collision pass (lines 949-1091)
CollideAll(p, nodes, s) == Updated(p, CollideLoop(p, nodes, nodes, s))

CollisionPass ==
    /\ pc = "collide"
    /\ iteration < collision_passes
    /\ pos' = CollideAll(pos, ConnectedNodes(graph), seed)
    /\ seed' = NextSeed(seed)
    /\ iteration' = iteration + 1
    /\ pc' = IF iteration + 1 = collision_passes THEN "done" ELSE "collide"
    /\ UNCHANGED <<guiVars, graph, raised, detectVars, metricVars, sectorVars, node_angles,
                   anchor_nodes, remaining_nodes, community_centers>>

Next ==
    \/ AnalysisNext
    \/ PlaceAnchors
    \/ PlaceRemaining
    \/ RefinePass
    \/ CollisionPass

LayoutInit ==
    /\ graph \in GraphsUpTo(LayoutNodes, LayoutEdges)
    /\ seed \in 0..(NumSeeds - 1)
    /\ InitLocals

LayoutSpec == LayoutInit /\ [][Next]_vars

\* the hub network, and beside it the networks without any friendship
BridgeInit ==
    /\ graph \in {BridgeGraph} \cup {[n |-> k, edges |-> <<>>] : k \in 0..BridgeIsolated}
    /\ seed \in 0..(BridgeSeeds - 1)
    /\ InitLocals

BridgeSpec == BridgeInit /\ [][Next]_vars

\* the five friends, and the empty network
SplitInit ==
    /\ graph \in {SplitGraph, [n |-> 0, edges |-> <<>>]}
    /\ seed \in 0..(SplitSeeds - 1)
    /\ InitLocals

SplitSpec == SplitInit /\ [][Next]_vars

\* the two groups with friendships across, and the empty network
MixedInit ==
    /\ graph \in {MixedGraph, [n |-> 0, edges |-> <<>>]}
    /\ seed \in 0..(MixedSeeds - 1)
    /\ InitLocals

MixedSpec == MixedInit /\ [][Next]_vars

(* ======================= properties of the analysis =================== *)
Nodes == 1..graph.n
Connected == {v \in Nodes : Degree(graph, v) > 0}
Isolated == {v \in Nodes : Degree(graph, v) = 0}
\* the set of neighbours of v
NeighborSet(v) == Range(Neighbors(graph, v))
\* neighbours of v carrying detector label c
LabelGroup(v, c) == {n \in NeighborSet(v) : community_map[n] = c}
\* position of the first neighbour of v carrying detector label c
FirstIndex(v, c) ==
    CHOOSE i \in 1..Degree(graph, v) :
        /\ community_map[Neighbors(graph, v)[i]] = c
        /\ \A j \in 1..(i - 1) : community_map[Neighbors(graph, v)[j]] # c
\* detection has handed over a community map
Detected == pc \notin {"start", "returned", "detect"} /\ raised \notin DetectionErrors
Analyzed == Detected /\ pc # "analyze"
RadiusAssigned == Analyzed /\ pc # "radius"
SectorsAllocated == RadiusAssigned /\ pc \notin {"sectors", "raised"}
MetricsDone == SectorsAllocated /\ pc # "metrics"
BoundsStored == MetricsDone /\ pc \notin {"angles", "bounds"}
IsolatedPlaced == BoundsStored /\ pc # "isolated"

\* C1: for a graph with at least one node and no edges the call completes
\* without raising (every node is then placed on the isolated grid); the
\* detection calls themselves are taken to succeed.
C1_ZeroEdgeGraphCompletes ==
    (graph.n >= 1 /\ graph.edges = <<>> /\ raised \notin DetectionErrors) => raised = "none"

\* C5: the target radius of a node of degree d is max_radius * (1 - d/D) when
\* the maximum degree D is positive and max_radius when D = 0; so a node of
\* higher or equal degree never has the larger radius.
C5_RadiusByDegree ==
    RadiusAssigned =>
        LET D == MaxDegree(graph)
        IN  /\ DOMAIN node_radius = Nodes
            /\ \A v \in Nodes :
                  /\ D = 0 => node_radius[v] = max_radius
                  /\ D > 0 => node_radius[v] * D = max_radius * (D - Degree(graph, v))
            /\ \A a, b \in Nodes :
                  Degree(graph, a) >= Degree(graph, b) => node_radius[a] <= node_radius[b]

C5_Witness ==
    /\ RadiusAssigned
    /\ \E a, b \in Nodes :
          /\ Degree(graph, a) > Degree(graph, b)
          /\ Degree(graph, b) > 0
          /\ node_radius[a] < node_radius[b]

\* C6: with k >= 1 primary communities the angle spans plus the k gaps fill
\* the circle: span(c) = size(c)/total * usable, the spans add up to 85% of
\* the circle and the gaps to the other 15%.
C6_SpansAndGapsFillCircle ==
    SectorsAllocated =>
        LET comms == {node_primary_community[v] : v \in DOMAIN node_primary_community}
            k == Cardinality(comms)
            size(c) == Cardinality({v \in Connected : node_primary_community[v] = c})
            total == Cardinality(DOMAIN node_primary_community)
            spans == SumSeq([i \in 1..k |-> community_angle_span[SortedSeq(comms)[i]]])
        IN  /\ k >= 1
            /\ DOMAIN community_angle_span = comms
            /\ \A c \in comms : community_angle_span[c] * total = size(c) * usable_angle
            /\ spans * 100 = FULL * 85
            /\ k * gap_per_community * 100 = FULL * 15
            /\ spans + k * gap_per_community = FULL

C6_Witness ==
    /\ BoundsStored
    /\ Cardinality(DOMAIN community_angle_span) >= 2
    /\ \E c, e \in DOMAIN community_angle_span :
          community_angle_span[c] > community_angle_span[e]

\* C7: the stored sectors [base, base + span] start at angle 0, follow one
\* another in community-size-descending order, consecutive ones are separated
\* by the same gap (2*pi*0.15)/k, none overlaps another and none passes 2*pi.
C7_SectorsSequentialDisjoint ==
    BoundsStored =>
        LET k == Len(sector_order)
            lo(i) == community_base_angles[sector_order[i]]
            hi(i) == lo(i) + community_angle_span[sector_order[i]]
            size(c) == Cardinality({v \in Connected : node_primary_community[v] = c})
        IN  /\ Range(sector_order) = DOMAIN community_base_angles
            /\ k = Cardinality(DOMAIN community_base_angles)
            /\ lo(1) = 0
            /\ \A i \in 1..(k - 1) :
                  /\ size(sector_order[i]) >= size(sector_order[i + 1])
                  /\ lo(i + 1) - hi(i) = gap_per_community
            /\ gap_per_community * k * 100 = FULL * 15
            /\ \A i, j \in 1..k : i # j => (hi(i) < lo(j) \/ hi(j) < lo(i))
            /\ \A i \in 1..k : hi(i) <= FULL

C7_Witness ==
    /\ BoundsStored
    /\ Len(sector_order) >= 2
    /\ community_angle_span[sector_order[1]] > community_angle_span[sector_order[2]]
    /\ sector_order[1] > sector_order[2]

\* C8 as claimed: the primary community of a connected node holds the most of
\* its neighbours, and among tied communities it is the lowest label.
C8_TieToLowestLabel ==
    Analyzed =>
        \A v \in Connected :
            LET p == node_primary_community[v]
            IN  \A c \in {community_map[n] : n \in NeighborSet(v)} :
                   \/ Cardinality(LabelGroup(v, c)) < Cardinality(LabelGroup(v, p))
                   \/ (Cardinality(LabelGroup(v, c)) = Cardinality(LabelGroup(v, p)) /\ p <= c)

\* C8 amended: the primary community of a connected node holds the most of its
\* neighbours, and among tied communities it is the one met first in the
\* node's neighbour enumeration.
C8_TieToFirstEnumerated ==
    Analyzed =>
        /\ DOMAIN node_primary_community = Connected
        /\ \A v \in Connected :
            LET p == node_primary_community[v]
            IN  /\ LabelGroup(v, p) # {}
                /\ \A c \in {community_map[n] : n \in NeighborSet(v)} \ {p} :
                      \/ Cardinality(LabelGroup(v, c)) < Cardinality(LabelGroup(v, p))
                      \/ /\ Cardinality(LabelGroup(v, c)) = Cardinality(LabelGroup(v, p))
                         /\ FirstIndex(v, p) < FirstIndex(v, c)

C8_Witness ==
    /\ Analyzed
    /\ \E v \in Connected :
          \E c \in {community_map[n] : n \in NeighborSet(v)} :
              /\ c < node_primary_community[v]
              /\ Cardinality(LabelGroup(v, c)) =
                     Cardinality(LabelGroup(v, node_primary_community[v]))

\* C9: the cohesion of a connected node is the number of its neighbours in its
\* primary-community group (neighbours grouped by their community) divided by
\* its neighbour count, hence at least 1/|N(n)| and positive.
C9_CohesionIsPrimaryGroupShare ==
    MetricsDone =>
        \A v \in Connected :
            /\ REq(temp_node_cohesion[v],
                   Ratio(Cardinality(LabelGroup(v, node_primary_community[v])),
                         Degree(graph, v)))
            /\ RLe(Ratio(1, Degree(graph, v)), temp_node_cohesion[v])

\* C10: for every connected node cohesion and cross ratio lie in [0, 1] and
\* the cross ratio is 1 - cohesion, for the connectivity analysis value
\* node_cross_connectivity as for the cohesion map.
C10_CrossRatioComplementsCohesion ==
    MetricsDone =>
        \A v \in Connected :
            /\ RLe(RatioZero, temp_node_cohesion[v])
            /\ RLe(temp_node_cohesion[v], Ratio(1, 1))
            /\ RLe(RatioZero, node_cross_connectivity[v])
            /\ RLe(node_cross_connectivity[v], Ratio(1, 1))
            /\ REq(node_cross_connectivity[v], ROneMinus(temp_node_cohesion[v]))

(* ======================= properties of the layout ===================== *)
\* an upper bound of the distance between the positions of a and b
Distance(a, b) == Norm(pos[a][1] - pos[b][1], pos[a][2] - pos[b][2]) + 1
\* 1.3 x the combined visual size within a primary community, 2.0 x across
MinSeparation(a, b) ==
    IF node_primary_community[a] = node_primary_community[b]
    THEN ((node_visual_size[a] + node_visual_size[b]) * 13) \div 10
    ELSE (node_visual_size[a] + node_visual_size[b]) * 2

\* C2: after the 80 collision passes any two distinct connected nodes are at
\* least 0.95 x their minimum separation apart.
C2_ConnectedNodesSeparated ==
    pc = "done" =>
        \A a, b \in Connected :
            a # b => 100 * Distance(a, b) >= 95 * MinSeparation(a, b)

\* C3: every zero-degree node that has a position lies strictly farther than
\* max_radius from the origin, and the finished layout positions all of them.
C3_IsolatedOutsideMaxRadius ==
    /\ \A v \in Isolated \cap DOMAIN pos :
          pos[v][1] * pos[v][1] + pos[v][2] * pos[v][2] > max_radius * max_radius
    /\ pc = "done" => Isolated \subseteq DOMAIN pos

C3_Witness ==
    /\ pc = "done"
    /\ Cardinality(Isolated) >= 2
    /\ \E v, w \in Isolated : pos[v] # pos[w]

\* side of the isolated grid (line 631) and the far edge of its bounding square
GridSide == CeilSqrt(Cardinality(Isolated))
GridFarEdge == grid_offset + (GridSide - 1) * grid_spacing
InGridSquare(pt) ==
    /\ grid_offset <= pt[1] /\ pt[1] <= GridFarEdge
    /\ grid_offset <= pt[2] /\ pt[2] <= GridFarEdge

\* C4: in the finished layout, when there are isolated nodes, no connected
\* node's position lies inside the bounding square of the isolated grid, the
\* square whose corner is (max_radius + 50, max_radius + 50).
C4_ConnectedClearOfGrid ==
    (pc = "done" /\ Isolated # {}) =>
        \A c \in Connected : ~InGridSquare(pos[c])

(* ======================= properties of the placement ================== *)
AnchorsChosen == IsolatedPlaced /\ pc # "anchors"
\* the (cohesion, degree) pair of a is strictly higher than that of b
KeyHigher(a, b) ==
    \/ RLt(temp_node_cohesion[b], temp_node_cohesion[a])
    \/ /\ REq(temp_node_cohesion[a], temp_node_cohesion[b])
       /\ Degree(graph, a) > Degree(graph, b)
\* anchors and the rest split the connected nodes, and no node of the rest
\* ranks strictly higher than an anchor
AnchorsAreTopRanked ==
    /\ Range(anchor_nodes) \cup Range(remaining_nodes) = Connected
    /\ Len(anchor_nodes) + Len(remaining_nodes) = Cardinality(Connected)
    /\ \A a \in Range(anchor_nodes) : \A r \in Range(remaining_nodes) : ~KeyHigher(r, a)

\* C11 as claimed: with n connected nodes there are max(1, ceil(n/10)) anchors,
\* and they are the top of the ranking by (cohesion, degree) descending.
C11_AnchorsCeilTenth ==
    AnchorsChosen =>
        /\ Len(anchor_nodes) = Max2(1, (Cardinality(Connected) + 9) \div 10)
        /\ AnchorsAreTopRanked

\* C11 amended: with n connected nodes there are max(1, floor(n/10)) anchors,
\* and they are the top of the ranking by (cohesion, degree) descending.
C11_AnchorsFloorTenth ==
    AnchorsChosen =>
        /\ Len(anchor_nodes) = Max2(1, Cardinality(Connected) \div 10)
        /\ AnchorsAreTopRanked

C11_Witness ==
    /\ AnchorsChosen
    /\ Cardinality(Connected) % 10 # 0
    /\ Len(anchor_nodes) >= 2
    /\ \E a \in Range(anchor_nodes) : \E r \in Range(remaining_nodes) : KeyHigher(a, r)

\* no edge joins two nodes of different detected communities
NoCrossEdges ==
    \A i \in 1..Len(graph.edges) :
        community_map[graph.edges[i][1]] = community_map[graph.edges[i][2]]

\* C12: when no edge joins nodes of different detected communities, every
\* connected node's primary community is its detector label, its cohesion is
\* exactly 1 and its cross ratio exactly 0.
C12_NoCrossEdgesFullCohesion ==
    (MetricsDone /\ NoCrossEdges) =>
        \A v \in Connected :
            /\ node_primary_community[v] = community_map[v]
            /\ REq(temp_node_cohesion[v], Ratio(1, 1))
            /\ REq(node_cross_connectivity[v], RatioZero)

C12_Witness ==
    /\ MetricsDone
    /\ NoCrossEdges
    /\ Cardinality({community_map[v] : v \in Connected}) >= 2
    /\ \A v \in Connected : temp_node_cohesion[v].n = temp_node_cohesion[v].d

\* C13: when the layout completes, the position map's domain is the graph's
\* node set and every node, connected or isolated, has one (x, y) pair.
C13_EveryNodePositioned ==
    pc = "done" =>
        /\ DOMAIN pos = Nodes
        /\ \A v \in Nodes : pos[v] \in Int \X Int

C13_Witness ==
    /\ pc = "done"
    /\ Connected # {} /\ Isolated # {}
    /\ Connected \cup Isolated \subseteq DOMAIN pos

(* ======================= properties of detection ====================== *)
\* C14: detection gives every node of degree > 0 exactly one label, the labels
\* used are exactly 0..k-1, and no zero-degree node has a label or a primary
\* community.
C14_LabelsCoverConnectedOnly ==
    /\ DOMAIN community_map \cap Isolated = {}
    /\ DOMAIN node_primary_community \cap Isolated = {}
    /\ Detected =>
          LET used == {community_map[v] : v \in Connected}
          IN  /\ DOMAIN community_map = Connected
              /\ used = 0..(Cardinality(used) - 1)

C14_Witness ==
    /\ Analyzed
    /\ Isolated # {}
    /\ Cardinality({community_map[v] : v \in Connected}) >= 2

\* C15: detection never ends the call: whichever way the library calls fail,
\* the step that runs detection hands a community map covering the connected
\* nodes to the analysis.
C15_DetectionFailureFallsBack ==
    [][pc = "detect" => (pc' = "analyze" /\ DOMAIN community_map' = Connected)]_vars

\* C16: for a graph without nodes the call returns at the guard: nothing is
\* raised, no stage runs (every local is as at entry), and the end of the
\* function, where the output file is written, is never reached.
C16_EmptyGraphReturnsAtOnce ==
    graph.n = 0 =>
        /\ pc \in {"start", "returned"}
        /\ raised = "none"
        /\ community_map = EmptyMap /\ node_primary_community = EmptyMap
        /\ comm_sizes = EmptyMap /\ node_radius = EmptyMap
        /\ pos = EmptyMap /\ anchor_nodes = <<>> /\ iteration = 0

C16_Witness == graph.n = 0 /\ pc = "returned" /\ raised = "none"

(* ======================= properties of the grid ======================= *)
\* number of isolated nodes before v in the graph's insertion order
IsolatedRank(v) == Cardinality({w \in Isolated : w < v})
\* ceil(sqrt(m)) for m >= 1
SideFor(m) == CHOOSE g \in 1..m : (g - 1) * (g - 1) < m /\ m <= g * g

Displaced(p) ==
    IF Connected \cap DOMAIN p = {} THEN p
    ELSE LET c == CHOOSE c \in Connected \cap DOMAIN p : TRUE
         IN  [v \in DOMAIN p |-> IF v \in Isolated THEN <<p[c][1] + LU, p[c][2]>> ELSE p[v]]

\* C18: a step never changes the position of an isolated node once it is set,
\* anchors and remaining nodes are connected nodes only, and the positions the
\* placement, a refinement pass or a collision pass give to the connected
\* nodes are the same wherever the isolated nodes are.
C18_IsolatedNodesOutsideThePasses ==
    [][/\ \A v \in Isolated \cap DOMAIN pos : v \in DOMAIN pos' /\ pos'[v] = pos[v]
       /\ Range(anchor_nodes') \cup Range(remaining_nodes') \subseteq Connected
       /\ pc = "remaining" =>
             \A c \in Connected : pos'[c] = PlaceAll(Displaced(pos), remaining_nodes, seed)[c]
       /\ pc = "refine" =>
             \A c \in Connected :
                 pos'[c] = RefineAll(Displaced(pos), ConnectedNodes(graph), seed)[c]
       /\ pc = "collide" =>
             \A c \in Connected :
                 pos'[c] = CollideAll(Displaced(pos), ConnectedNodes(graph), seed)[c]]_vars

C18_Witness ==
    /\ pc = "done"
    /\ Isolated # {}
    /\ \E c \in Connected : pos[c] # <<0, 0>>
    /\ \A v \in Isolated : pos[v][1] >= grid_offset /\ pos[v][2] >= grid_offset

\* the list s back to front, and with its first element moved to the end
Reverse(s) == [i \in 1..Len(s) |-> s[Len(s) + 1 - i]]
Rotate(s) == IF s = <<>> THEN s ELSE Tail(s) \o <<s[1]>>
OtherOrders(s) == {Reverse(s), Rotate(s)}

\* C19: the positions a refinement pass or a collision pass produces are
\* computed from the positions at the start of the pass only: processing the
\* connected nodes in another order (same draws per node) gives the same pass
\* result.
C19_PassResultIndependentOfOrder ==
    [][/\ pc = "refine" =>
             \A order \in OtherOrders(ConnectedNodes(graph)) :
                 pos' = RefineAll(pos, order, seed)
       /\ pc = "collide" =>
             \A order \in OtherOrders(ConnectedNodes(graph)) :
                 pos' = CollideAll(pos, order, seed)]_vars

\* a refinement pass has moved a node whose neighbour it also moved
C19_Witness ==
    /\ pc = "collide"
    /\ \E a, b \in Connected :
          /\ a # b /\ b \in NeighborSet(a)
          /\ pos[a] # <<0, 0>> /\ pos[b] # <<0, 0>>

\* the last step was a collision pass
AfterCollisionPass == (pc = "collide" /\ iteration >= 1) \/ pc = "done"

\* neighbours of v whose primary community is c
PrimaryGroup(v, c) == {n \in NeighborSet(v) : MapGet(node_primary_community, n, None) = c}

\* the largest number of neighbours v has in one community other than its own
TopForeignCount(v) ==
    LET foreign == {node_primary_community[n] : n \in NeighborSet(v) \cap Connected}
                       \ {node_primary_community[v]}
    IN  IF foreign = {} THEN 0
        ELSE LET top == CHOOSE c \in foreign :
                            \A e \in foreign : Cardinality(PrimaryGroup(v, e))
                                                   <= Cardinality(PrimaryGroup(v, c))
             IN  Cardinality(PrimaryGroup(v, top))

\* the three drift conditions: cross ratio > 0.5, top foreign community > 40%
\* of the neighbours, balance ratio > 0.5
DriftConditions(v) ==
    LET total == Cardinality(NeighborSet(v))
        same_count == Cardinality(PrimaryGroup(v, node_primary_community[v]))
        top == TopForeignCount(v)
    IN  /\ 2 * (total - same_count) > total
        /\ 10 * top > 4 * total
        /\ 2 * top > same_count + top

\* the direction of v from the centre lies in the stored sector of its primary
\* community
InHomeSector(v) ==
    LET angle == Atan2(pos[v][2], pos[v][1]) % FULL
        min_angle == community_base_angles[node_primary_community[v]] % FULL
        max_angle == (community_base_angles[node_primary_community[v]]
                      + community_angle_span[node_primary_community[v]]) % FULL
    IN  IF min_angle < max_angle
        THEN min_angle <= angle /\ angle <= max_angle
        ELSE angle >= min_angle \/ angle <= max_angle

\* C20: after every collision pass, every connected node away from the centre
\* that does not meet all three drift conditions lies within the sector of
\* its primary community.
C20_OnlyDriftersLeaveHomeSector ==
    AfterCollisionPass =>
        \A v \in Connected :
            (pos[v] # <<0, 0>> /\ ~DriftConditions(v)) => InHomeSector(v)

\* the angle lies in the stored sector [base, base + span] of community c
AngleInSector(angle0, c) ==
    LET angle == angle0 % FULL
        min_angle == community_base_angles[c] % FULL
        max_angle == (community_base_angles[c] + community_angle_span[c]) % FULL
    IN  IF min_angle < max_angle
        THEN min_angle <= angle /\ angle <= max_angle
        ELSE angle >= min_angle \/ angle <= max_angle

\* the centre of the stored sector of community c
SectorCentre(c) == community_base_angles[c] + community_angle_span[c] \div 2

\* the distance of the initial angle of node v from the centre of the stored
\* sector of its primary community
OffCentre(v) == Abs(node_angles[v] - SectorCentre(node_primary_community[v]))

\* C21: the initial angle of every anchor lies inside the stored sector of its
\* primary community; with cohesion >= 0.5 it is within 0.1 * 0.85 * span of
\* the sector's centre, with cohesion < 0.5 it is (0.5 - cohesion) * 0.85 * span
\* away from that centre.
C21_AnchorAngleInItsSector ==
    AnchorsChosen =>
        \A a \in Range(anchor_nodes) :
            LET span == community_angle_span[node_primary_community[a]]
                coh == temp_node_cohesion[a]
            IN  /\ AngleInSector(node_angles[a], node_primary_community[a])
                /\ RLe(Ratio(1, 2), coh) => 1000 * OffCentre(a) <= 85 * span
                /\ RLt(coh, Ratio(1, 2)) =>
                       Abs(OffCentre(a)
                           - ((coh.d - 2 * coh.n) * ((span * 85) \div 100)) \div (2 * coh.d)) <= 2

\* the stages that come after the first reader of the sector bounds (the
\* assignment of the initial angles)
AfterAngles == {"bounds", "isolated", "anchors", "remaining", "refine", "collide"}

\* a step that leaves the sector bounds and the node metrics as they are
MetricsKept ==
    /\ community_base_angles' = community_base_angles
    /\ community_angle_span' = community_angle_span
    /\ node_primary_community' = node_primary_community
    /\ temp_node_cohesion' = temp_node_cohesion
    /\ node_radius' = node_radius

\* C22: once the initial angles have been assigned from the sector bounds, no
\* later step changes the sector bounds, the primary communities, the
\* cohesion values or the target radii; later steps only change positions.
C22_MetricsFrozenOnceRead == [][(pc \in AfterAngles) => MetricsKept]_vars

\* the initial placement has run and no pass has run yet
InitiallyPlaced == pc = "refine" /\ iteration = 0

\* C23: after the initial placement every connected node that is not an
\* anchor and not at the centre has its direction inside the stored sector of
\* its primary community.
C23_PlacedInsideHomeSector ==
    InitiallyPlaced =>
        \A v \in Range(remaining_nodes) : pos[v] # <<0, 0>> => InHomeSector(v)

\* the last step was a refinement pass
AfterRefinePass == (pc = "refine" /\ iteration >= 1) \/ (pc = "collide" /\ iteration = 0)

\* C24: at the end of every refinement pass every connected node away from
\* the centre has its direction inside the stored sector of its primary
\* community.
C24_RefinedInsideHomeSector ==
    AfterRefinePass => \A v \in Connected : pos[v] # <<0, 0>> => InHomeSector(v)

\* the target radius of the refinement phase (lines 888-892): node_radius
\* times 0.7 + (1 - cohesion) * 0.6
RefinementRadius(v) ==
    (node_radius[v] * (700 + (600 * (temp_node_cohesion[v].d - temp_node_cohesion[v].n))
                                 \div temp_node_cohesion[v].d)) \div 1000

\* C25: at the end of every collision pass the distance of every connected
\* node from the centre is within [0.4, 1.6] times the cohesion-adjusted
\* target radius of the refinement phase (up to the rounding of a position
\* to coordinate units, 2 units).
C25_CollidedWithinRefinementBand ==
    AfterCollisionPass =>
        \A v \in Connected :
            /\ Norm(pos[v][1], pos[v][2]) >= (RefinementRadius(v) * 400) \div 1000 - 2
            /\ Norm(pos[v][1], pos[v][2]) <= (RefinementRadius(v) * 1600) \div 1000 + 2

\* the anchors whose primary community is c, in the next state
OwnAnchors(c) == SelectSeq(anchor_nodes', LAMBDA a : node_primary_community[a] = c)

\* m is the mean (rounded down) of coordinate k of the next positions of the
\* nodes of the list ns
IsMeanOf(m, ns, k) ==
    LET sum == SumSeq([i \in 1..Len(ns) |-> pos'[ns[i]][k]])
    IN  m * Len(ns) <= sum /\ sum < (m + 1) * Len(ns)

\* the step that places the anchors gives a centre to exactly the communities
\* that have an anchor, the mean position of their anchors
CentresAreAnchorMeans ==
    /\ DOMAIN community_centers' = {node_primary_community[a] : a \in Range(anchor_nodes')}
    /\ \A c \in DOMAIN community_centers' :
          /\ IsMeanOf(community_centers'[c][1], OwnAnchors(c), 1)
          /\ IsMeanOf(community_centers'[c][2], OwnAnchors(c), 2)

\* connected nodes whose primary community has no centre
Uncentred == {v \in Connected : node_primary_community[v] \notin DOMAIN community_centers}

\* the distance of v from the centre is within [0.4, 1.6] times its
\* refinement radius
InRefinementBand(v) ==
    /\ 1000 * Norm(pos[v][1], pos[v][2]) >= 400 * RefinementRadius(v)
    /\ 1000 * Norm(pos[v][1], pos[v][2]) <= 1600 * RefinementRadius(v)

\* a refinement pass leaves a node without community centre where it is,
\* unless the node is outside its radial band or its sector
UncentredStay ==
    \A v \in Uncentred : (InRefinementBand(v) /\ InHomeSector(v)) => pos'[v] = pos[v]

\* the initial placement puts a node without community centre and without
\* friends of its own community at an angle of its sector (or at the origin)
UncentredPlacedPolar ==
    \A v \in Uncentred \cap Range(remaining_nodes) :
        PrimaryGroup(v, node_primary_community[v]) = {} =>
            \/ pos'[v] = <<0, 0>>
            \/ AngleInSector(Atan2(pos'[v][2], pos'[v][1]), node_primary_community[v])

MostConnected == {v \in Connected : \A w \in Connected : Degree(graph, w) <= Degree(graph, v)}

\* the distance of v from the origin
FromOrigin(v) == Norm(pos[v][1], pos[v][2])

\* C27: in the final layout a node whose degree is the largest of the graph
\* is at the origin (0, 0), and so no connected node is closer to the origin
\* than it is.
C27_MostConnectedAtOrigin ==
    pc = "done" =>
        \A v \in MostConnected :
            /\ pos[v] = <<0, 0>>
            /\ \A w \in Connected : FromOrigin(v) <= FromOrigin(w)

\* a final layout with a most-connected node and a connected node that is
\* away from the origin
C27_Witness ==
    /\ pc = "done"
    /\ MostConnected # {}
    /\ \E w \in Connected : pos[w] # <<0, 0>>

\* the grid cell <<column, row>> of an isolated node, read from its position
GridCell(v) == <<(pos[v][1] - grid_offset) \div grid_spacing,
                 (pos[v][2] - grid_offset) \div grid_spacing>>

\* C28: once the m >= 1 isolated nodes are placed, the grid is square with
\* side g, the least g with g * g >= m: every isolated node sits exactly on a
\* cell whose column and row are in 0..g-1, and no two isolated nodes share
\* a cell.
C28_GridSquareAndInjective ==
    (IsolatedPlaced /\ Isolated # {}) =>
        LET g == SideFor(Cardinality(Isolated))
        IN  /\ \A v \in Isolated :
                  /\ GridCell(v)[1] \in 0..(g - 1)
                  /\ GridCell(v)[2] \in 0..(g - 1)
                  /\ pos[v] = <<GridCell(v)[1] * grid_spacing + grid_offset,
                                GridCell(v)[2] * grid_spacing + grid_offset>>
            /\ \A v, w \in Isolated : GridCell(v) = GridCell(w) => v = w

\* three isolated nodes are placed: the grid has side 2, its first row is
\* full and its second row is begun
C28_Witness ==
    /\ IsolatedPlaced
    /\ Cardinality(Isolated) = 3
    /\ {GridCell(v) : v \in Isolated} = {<<0, 0>>, <<1, 0>>, <<0, 1>>}

(* ====================================================================== *)
(* The window of vrchat_network_gui.py: the Generate and Stop buttons, the *)
(* process_network thread and fetch_all_mutuals of fetch_vrchat_mutuals.py *)
(* ====================================================================== *)
\* threads one specification lets start_processing start
MaxRuns == 2
\* friends extract_friends_and_mutuals may return
MaxFriends == 2
\* full pages of 100 mutual friends the server may return for one friend
MaxPages == 1

\* the thread of lines 647-649 before its first statement
NewThread == [at |-> "check1", total |-> 0, i |-> 0, pages |-> 0, fetched |-> 0]

\* thread k moves to position a
Goto(k, a) == threads' = [threads EXCEPT ![k].at = a]

\* start_processing (lines 620-649), the command of the Generate button; Tk
\* runs the command of an enabled button only
StartProcessing ==
    /\ generate_btn = "normal"
    /\ Len(threads) < MaxRuns
    /\ \E valid \in BOOLEAN :
          IF processing \/ ~valid
          THEN UNCHANGED guiVars
          ELSE /\ processing' = TRUE
               /\ stop_requested' = FALSE
               /\ generate_btn' = "disabled"
               /\ stop_btn' = "normal"
               /\ threads' = Append(threads, NewThread)
               /\ UNCHANGED after_queue
    /\ UNCHANGED layoutVars

\* stop_processing (lines 651-657), the command of the Stop button
StopProcessing ==
    /\ stop_btn = "normal"
    /\ IF processing
       THEN /\ stop_requested' = TRUE
            /\ stop_btn' = "disabled"
            /\ UNCHANGED <<processing, generate_btn, after_queue, threads>>
       ELSE UNCHANGED guiVars
    /\ UNCHANGED layoutVars

\* processing_complete (lines 903-910) and processing_failed (lines 912-920)
BackToIdle ==
    /\ processing' = FALSE
    /\ stop_requested' = FALSE
    /\ generate_btn' = "normal"
    /\ stop_btn' = "disabled"

\* the main loop of Tk runs the oldest callback of root.after(0, ...)
RunCallback ==
    /\ after_queue # <<>>
    /\ after_queue' = Tail(after_queue)
    /\ LET callback == Head(after_queue)
       IN  IF callback = "generate_normal"
           THEN generate_btn' = "normal" /\ UNCHANGED <<processing, stop_requested, stop_btn>>
           ELSE IF callback = "stop_disabled"
           THEN stop_btn' = "disabled" /\ UNCHANGED <<processing, stop_requested, generate_btn>>
           ELSE IF callback \in {"processing_complete", "processing_failed"}
           THEN BackToIdle
           ELSE UNCHANGED <<processing, stop_requested, generate_btn, stop_btn>>
    /\ UNCHANGED <<threads, layoutVars>>

\* the stage that follows each `if self.stop_requested:` of process_network
StageAfter(check) ==
    IF check = "check1" THEN "extract"
    ELSE IF check = "check2" THEN "session"
    ELSE IF check = "check3" THEN "build"
    ELSE "visualize"

\* `if self.stop_requested:` (lines 669, 689, 788, 851)
StopCheck(k) ==
    /\ threads[k].at \in {"check1", "check2", "check3", "check4"}
    /\ Goto(k, IF stop_requested THEN "reset_processing" ELSE StageAfter(threads[k].at))
    /\ UNCHANGED <<processing, stop_requested, generate_btn, stop_btn, after_queue, layoutVars>>

\* self.processing = False (lines 673, 693, 792, 855)
ResetProcessing(k) ==
    /\ threads[k].at = "reset_processing"
    /\ processing' = FALSE
    /\ Goto(k, "reset_stop")
    /\ UNCHANGED <<stop_requested, generate_btn, stop_btn, after_queue, layoutVars>>

\* self.stop_requested = False (lines 674, 694, 793, 856)
ResetStop(k) ==
    /\ threads[k].at = "reset_stop"
    /\ stop_requested' = FALSE
    /\ Goto(k, "schedule_generate")
    /\ UNCHANGED <<processing, generate_btn, stop_btn, after_queue, layoutVars>>

\* self.root.after(0, lambda: self.generate_btn.config(state='normal'))
ScheduleGenerate(k) ==
    /\ threads[k].at = "schedule_generate"
    /\ after_queue' = Append(after_queue, "generate_normal")
    /\ Goto(k, "schedule_stop")
    /\ UNCHANGED <<processing, stop_requested, generate_btn, stop_btn, layoutVars>>

\* self.root.after(0, lambda: self.stop_btn.config(state='disabled')); return
ScheduleStop(k) ==
    /\ threads[k].at = "schedule_stop"
    /\ after_queue' = Append(after_queue, "stop_disabled")
    /\ Goto(k, "ended")
    /\ UNCHANGED <<processing, stop_requested, generate_btn, stop_btn, layoutVars>>

\* extract_friends_and_mutuals (lines 678-686): no friend raises
ExtractFriends(k) ==
    /\ threads[k].at = "extract"
    /\ \E friend_count \in 0..MaxFriends :
          threads' = [threads EXCEPT ![k].at = IF friend_count = 0 THEN "except" ELSE "check2",
                                     ![k].total = friend_count]
    /\ UNCHANGED <<processing, stop_requested, generate_btn, stop_btn, after_queue, layoutVars>>

\* lines 705-747: a saved session or a login leads to fetch_all_mutuals,
\* missing credentials and a failed login raise
OpenSession(k) ==
    /\ threads[k].at = "session"
    /\ \E outcome \in {"session", "login", "no_credentials", "login_failed"} :
          /\ threads' = [threads EXCEPT ![k].at = IF outcome \in {"session", "login"}
                                                  THEN "fetch_check" ELSE "except",
                                        ![k].i = 1]
          /\ after_queue' = IF outcome = "no_credentials"
                            THEN Append(after_queue, "show_login_section")
                            ELSE after_queue
    /\ UNCHANGED <<processing, stop_requested, generate_btn, stop_btn, layoutVars>>

\* fetch_all_mutuals, lines 204-215: the head of the loop over the friends,
\* the stop callback and the progress callback
FetchCheck(k) ==
    /\ threads[k].at = "fetch_check"
    /\ IF threads[k].i > threads[k].total \/ stop_requested
       THEN Goto(k, "fetch_done") /\ UNCHANGED after_queue
       ELSE /\ threads' = [threads EXCEPT ![k].at = "request", ![k].pages = 0]
            /\ after_queue' = Append(after_queue, "update_status")
    /\ UNCHANGED <<processing, stop_requested, generate_btn, stop_btn, layoutVars>>

\* what the server does with one request of a page
Responses == {"full", "short", "empty", "rate_limited", "error", "exception"}

\* self.session.get(.../mutuals/friends) and the branches on its answer
\* (lines 223-251, 258-261)
Request(k) ==
    /\ threads[k].at = "request"
    /\ \E response \in Responses :
          /\ response = "full" => threads[k].pages < MaxPages
          /\ threads' =
               IF response = "full"
               THEN [threads EXCEPT ![k].at = "page_sleep", ![k].pages = @ + 1]
               ELSE IF response = "rate_limited"
               THEN [threads EXCEPT ![k].at = "rate_sleep"]
               ELSE IF response = "exception"
               THEN [threads EXCEPT ![k].at = "fetch_check", ![k].i = @ + 1,
                                    ![k].fetched = @ + 1]
               ELSE [threads EXCEPT ![k].at = "store"]
    /\ UNCHANGED <<processing, stop_requested, generate_btn, stop_btn, after_queue, layoutVars>>

\* time.sleep(0.2) after a full page (lines 242-243)
PageSleep(k) ==
    /\ threads[k].at = "page_sleep"
    /\ Goto(k, "request")
    /\ UNCHANGED <<processing, stop_requested, generate_btn, stop_btn, after_queue, layoutVars>>

\* time.sleep(30); continue (lines 245-248)
RateSleep(k) ==
    /\ threads[k].at = "rate_sleep"
    /\ Goto(k, "request")
    /\ UNCHANGED <<processing, stop_requested, generate_btn, stop_btn, after_queue, layoutVars>>

\* mutuals_data[friend_id] = all_mutuals; time.sleep(0.5) (lines 253-256)
Store(k) ==
    /\ threads[k].at = "store"
    /\ threads' = [threads EXCEPT ![k].at = "fetch_check", ![k].i = @ + 1,
                                  ![k].fetched = @ + 1]
    /\ UNCHANGED <<processing, stop_requested, generate_btn, stop_btn, after_queue, layoutVars>>

\* the return of fetch_all_mutuals and lines 750-786 of process_network: no
\* entry raises, and so may the writing of the cache file
FetchDone(k) ==
    /\ threads[k].at = "fetch_done"
    /\ \E saved \in BOOLEAN :
          Goto(k, IF threads[k].fetched = 0 \/ ~saved THEN "except" ELSE "check3")
    /\ UNCHANGED <<processing, stop_requested, generate_btn, stop_btn, after_queue, layoutVars>>

\* step 3, lines 798-849
BuildGraph(k) ==
    /\ threads[k].at = "build"
    /\ Goto(k, "check4")
    /\ UNCHANGED <<processing, stop_requested, generate_btn, stop_btn, after_queue, layoutVars>>

\* step 4, lines 861-896: create_visualization returns or raises
Visualize(k) ==
    /\ threads[k].at = "visualize"
    /\ \E completed \in BOOLEAN :
          IF completed
          THEN Goto(k, "ended") /\ after_queue' = Append(after_queue, "processing_complete")
          ELSE Goto(k, "except") /\ UNCHANGED after_queue
    /\ UNCHANGED <<processing, stop_requested, generate_btn, stop_btn, layoutVars>>

\* except Exception (lines 898-901)
Failed(k) ==
    /\ threads[k].at = "except"
    /\ after_queue' = Append(after_queue, "processing_failed")
    /\ Goto(k, "ended")
    /\ UNCHANGED <<processing, stop_requested, generate_btn, stop_btn, layoutVars>>

\* one statement of thread k
ThreadStep(k) ==
    /\ k \in DOMAIN threads
    /\ \/ StopCheck(k)
       \/ ResetProcessing(k)
       \/ ResetStop(k)
       \/ ScheduleGenerate(k)
       \/ ScheduleStop(k)
       \/ ExtractFriends(k)
       \/ OpenSession(k)
       \/ FetchCheck(k)
       \/ Request(k)
       \/ PageSleep(k)
       \/ RateSleep(k)
       \/ Store(k)
       \/ FetchDone(k)
       \/ BuildGraph(k)
       \/ Visualize(k)
       \/ Failed(k)

GuiNext ==
    \/ StartProcessing
    \/ StopProcessing
    \/ RunCallback
    \/ \E k \in DOMAIN threads : StopCheck(k)
    \/ \E k \in DOMAIN threads : ResetProcessing(k)
    \/ \E k \in DOMAIN threads : ResetStop(k)
    \/ \E k \in DOMAIN threads : ScheduleGenerate(k)
    \/ \E k \in DOMAIN threads : ScheduleStop(k)
    \/ \E k \in DOMAIN threads : ExtractFriends(k)
    \/ \E k \in DOMAIN threads : OpenSession(k)
    \/ \E k \in DOMAIN threads : FetchCheck(k)
    \/ \E k \in DOMAIN threads : Request(k)
    \/ \E k \in DOMAIN threads : PageSleep(k)
    \/ \E k \in DOMAIN threads : RateSleep(k)
    \/ \E k \in DOMAIN threads : Store(k)
    \/ \E k \in DOMAIN threads : FetchDone(k)
    \/ \E k \in DOMAIN threads : BuildGraph(k)
    \/ \E k \in DOMAIN threads : Visualize(k)
    \/ \E k \in DOMAIN threads : Failed(k)

\* the window after its construction; create_visualization is not entered
GuiInit ==
    /\ graph = [n |-> 0, edges |-> <<>>]
    /\ seed = 0
    /\ InitLocals

GuiSpec == GuiInit /\ [][GuiNext]_vars

\* a started thread that can run a statement is scheduled, a sleep returns,
\* and the main loop of Tk runs a pending callback
GuiLiveSpec ==
    /\ GuiSpec
    /\ \A k \in 1..MaxRuns : WF_vars(ThreadStep(k))
    /\ WF_vars(RunCallback)

(* ======================= properties of the window ===================== *)
\* the threads that are inside process_network
ActiveThreads == {k \in DOMAIN threads : threads[k].at # "ended"}

\* C29: at most one process_network thread is inside process_network at
\* any time, whatever the interleaving of the clicks with the thread.
C29_AtMostOneWorker == Cardinality(ActiveThreads) <= 1

\* nothing runs, Generate is enabled and Stop is disabled
Idle == ~processing /\ generate_btn = "normal" /\ stop_btn = "disabled"

\* C30: every run that Generate starts leads back to the idle window
\* (processing False, Generate enabled, Stop disabled), whatever the server
\* answers to the requests of fetch_all_mutuals.
C30_RunReturnsToIdle == processing ~> Idle

=============================================================================
